---- MODULE Spec2Model ----
(***************************************************************************)
(* Model of the productivity dashboard: DataProcessor (column validation,  *)
(* weekly aggregation, holiday-adjusted goals), PerformanceAnalyzer        *)
(* (trend, alerts) and the streak computation of DashboardVisualizer.      *)
(*                                                                         *)
(* Tables are sequences of rows; a row is a function from column names to  *)
(* cell values.  Instants are integers counted in ticks from Monday        *)
(* 2024-01-01 00:00; a day is TicksPorDia ticks, so an instant that is not *)
(* a multiple of TicksPorDia carries a time of day.  Column names are      *)
(* written without diacritics.                                             *)
(***************************************************************************)
EXTENDS Integers, Sequences, FiniteSets, TLC

VARIABLES
    df_principal,   \* DataProcessor.df_principal: None or the loaded table
    feriados,       \* the holiday list handed to preprocessar_dados
    resumo,         \* the summary table handed to the analyzer and visualizer
    ret,            \* the value returned (or the error raised) by the last call
    secao           \* where DashboardApp.run stands

vars == <<df_principal, feriados, resumo, ret, secao>>

----------------------------------------------------------------------------
(* Bounds of the model                                                     *)

TicksPorDia == 2
NumDias == 8
MaxLinhasLivres == 1
MaxSerie == 6
MinJanela == 2
MaxJanela == 4
MaxSemanasApp == 4
MaxLinhasMeta == 2
SemanasCenario == 4
MaxLinhasOrdem == 3
MaxLinhasCentro == 10
MaxLinhasNorte == 4
MaxAlertas == 3

----------------------------------------------------------------------------
(* config.py                                                               *)

DIARIA == 8
SEMANAL == 40

COL_DATA == "Date (Data Fechamento Operacoes)"
COL_PROD == "QTD. PROXXIMA | Produtivas - Fechamento Geral"
COL_PROT == "ID Protocolo | Proxxima"
COL_TEC == "Nome Colaborador"

COLUNAS_ORIGINAIS ==
    [data_fechamento |-> COL_DATA, produtividade |-> COL_PROD,
     protocolos |-> COL_PROT, tecnico |-> COL_TEC]

\* list(COLUNAS_ORIGINAIS.values()), in insertion order
COLUNAS_OBRIGATORIAS == <<COL_DATA, COL_PROD, COL_PROT, COL_TEC>>

\* list(COLUNAS_ORIGINAIS.keys()), in insertion order
CHAVES_ORIGINAIS == <<"data_fechamento", "produtividade", "protocolos", "tecnico">>

\* FERIADOS: the declared holidays of each year, as days counted from
\* 2024-01-01 (01-01, 02-12, 02-13, 03-29, 05-01, 09-07, 10-12, 11-02,
\* 11-15, 12-25 of 2024 and of 2025)
FERIADOS ==
    (2024 :> {0, 42, 43, 88, 121, 250, 285, 306, 319, 359})
        @@ (2025 :> {366, 408, 409, 453, 486, 615, 650, 671, 684, 724})

----------------------------------------------------------------------------
(* Generic helpers                                                         *)

None == <<>>
Some(x) == <<x>>

Range(s) == {s[i] : i \in DOMAIN s}

Min(S) == CHOOSE x \in S : \A y \in S : x <= y
Max(S) == CHOOSE x \in S : \A y \in S : x >= y

RECURSIVE SetToSeqAsc(_)
SetToSeqAsc(S) ==
    IF S = {} THEN <<>>
    ELSE LET m == Min(S) IN <<m>> \o SetToSeqAsc(S \ {m})

RECURSIVE SumSeq(_)
SumSeq(s) == IF s = <<>> THEN 0 ELSE Head(s) + SumSeq(Tail(s))

RECURSIVE Concat(_)
Concat(ss) == IF ss = <<>> THEN <<>> ELSE Head(ss) \o Concat(Tail(ss))

\* Python's sum() over booleans counts the True ones
Bool2Int(b) == IF b THEN 1 ELSE 0

----------------------------------------------------------------------------
(* Instants                                                                *)

\* pd.NaT, the result of parsing a closing date that does not parse
NaT == -1
\* a closing-date cell whose content is not a date
DataInvalida == -2

\* pd.Timedelta(days=n)
Dias(n) == n * TicksPorDia

\* Timestamp.weekday(): Monday is 0
weekday(t) == (t \div TicksPorDia) % 7

\* variant: a cell that does not parse becomes the first instant
to_datetime_padrao(x) == IF x >= 0 THEN x ELSE 0

\* pd.to_datetime(x, errors='coerce')
to_datetime(x) == IF x >= 0 THEN x ELSE NaT

\* get_feriados_ano(ano): the holidays of that year at midnight, none for a
\* year FERIADOS does not declare
get_feriados_ano(ano) ==
    IF ano \in DOMAIN FERIADOS THEN {Dias(d) : d \in FERIADOS[ano]} ELSE {}

----------------------------------------------------------------------------
(* Data frames: [colunas |-> set of column names, linhas |-> rows]         *)

\* df.rename(columns=m): m maps old names to new names
rename(df, m) ==
    LET novo(c) == IF c \in DOMAIN m THEN m[c] ELSE c
        cols == {novo(c) : c \in df.colunas}
    IN  [colunas |-> cols,
         linhas |-> [i \in DOMAIN df.linhas |->
                       [n \in cols |->
                          df.linhas[i][CHOOSE c \in df.colunas : novo(c) = n]]]]

\* df[cols]: keeps the listed columns only (KeyError when one is absent,
\* which the callers test before)
select(df, cols) ==
    [colunas |-> cols,
     linhas |-> [i \in DOMAIN df.linhas |-> [c \in cols |-> df.linhas[i][c]]]]

\* the technicians of the model, in the order their names sort
Tecnicos == <<"A", "B">>

----------------------------------------------------------------------------
(* DataProcessor                                                           *)

\* {v: k for k, v in COLUNAS_ORIGINAIS.items()}
MapaCanonico ==
    [c \in Range(COLUNAS_OBRIGATORIAS) |->
        CHOOSE k \in DOMAIN COLUNAS_ORIGINAIS : COLUNAS_ORIGINAIS[k] = c]

\* variant: the validation stops at the first missing column
validar_colunas_primeira(df) ==
    LET faltantes == SelectSeq(COLUNAS_OBRIGATORIAS, LAMBDA col : col \notin df.colunas)
    IN  IF faltantes # <<>>
        THEN [op |-> "validar_colunas", status |-> "erro", valor |-> <<Head(faltantes)>>, args |-> <<>>]
        ELSE [op |-> "validar_colunas", status |-> "ok", valor |-> <<>>, args |-> <<>>]

validar_colunas(df) ==
    LET faltantes == SelectSeq(COLUNAS_OBRIGATORIAS, LAMBDA col : col \notin df.colunas)
    IN  IF faltantes # <<>>
        THEN [op |-> "validar_colunas", status |-> "erro", valor |-> faltantes, args |-> <<>>]
        ELSE [op |-> "validar_colunas", status |-> "ok", valor |-> <<>>, args |-> <<>>]

\* variant: the window leaves out its last day (an exclusive end)
calcular_meta_seis(semana, fer) ==
    LET dias == [i \in 1..6 |-> semana + Dias(i - 1)]
        qtd_feriados == SumSeq([i \in 1..6 |-> Bool2Int(dias[i] \in fer)])
    IN  SEMANAL - (qtd_feriados * DIARIA)

\* variant: the goal is floored at zero
calcular_meta_limitada(semana, fer) ==
    LET dias == [i \in 1..7 |-> semana + Dias(i - 1)]
        qtd_feriados == SumSeq([i \in 1..7 |-> Bool2Int(dias[i] \in fer)])
    IN  Max({0, SEMANAL - (qtd_feriados * DIARIA)})

calcular_meta(semana, fer) ==
    LET dias == [i \in 1..7 |-> semana + Dias(i - 1)]
        qtd_feriados == SumSeq([i \in 1..7 |-> Bool2Int(dias[i] \in fer)])
    IN  SEMANAL - (qtd_feriados * DIARIA)

\* the dict of goals, one entry per distinct non-null week of df
calcular_metas_semanais(df, fer) ==
    [semana \in {r["semana"] : r \in Range(df.linhas)} \ {NaT} |->
        calcular_meta(semana, fer)]

\* variant: the offset is the ISO weekday number (Monday is 1)
semana_de_iso(data) == IF data = NaT THEN NaT ELSE data - Dias(weekday(data) + 1)

\* the week column: data_fechamento - to_timedelta(weekday, unit='D')
semana_de(data) == IF data = NaT THEN NaT ELSE data - Dias(weekday(data))

\* a cell that 'count' leaves out (an empty protocol identifier)
NaN == -3

\* df.groupby(['tecnico', 'semana']): the rows of one group, in table order;
\* rows whose key holds a null value belong to no group
grupo(df, tecnico, semana) ==
    SelectSeq(df.linhas,
              LAMBDA r : r["tecnico"] = tecnico /\ r["semana"] = semana)

\* .agg({'produtividade': 'sum', 'protocolos': 'count'}).reset_index():
\* one row per group, sorted by (tecnico, semana)
agregar(df) ==
    LET linhaDe(tecnico, semana) ==
            LET g == grupo(df, tecnico, semana)
            IN  [tecnico |-> tecnico,
                 semana |-> semana,
                 produtividade |-> SumSeq([i \in DOMAIN g |-> g[i]["produtividade"]]),
                 protocolos |-> Len(SelectSeq(g, LAMBDA r : r["protocolos"] # NaN))]
        semanasDe(tecnico) ==
            SetToSeqAsc({r["semana"] : r \in {x \in Range(df.linhas) :
                            x["tecnico"] = tecnico /\ x["semana"] # NaT}})
        doTecnico(tecnico) ==
            LET ss == semanasDe(tecnico)
            IN  [j \in DOMAIN ss |-> linhaDe(tecnico, ss[j])]
    IN  [colunas |-> {"tecnico", "semana", "produtividade", "protocolos"},
         linhas |-> Concat([k \in DOMAIN Tecnicos |-> doTecnico(Tecnicos[k])])]

\* variant: the goal must be exceeded
meta_batida_estrita(produtividade, meta_semana) == produtividade > meta_semana

\* resumo['meta_batida'] = resumo['produtividade'] >= resumo['meta_semana']
meta_batida_de(produtividade, meta_semana) == produtividade >= meta_semana

\* the frame preprocessar_dados groups: canonical names, the four canonical
\* columns, the parsed closing date and the week column
canonico(df) ==
    LET df2 == select(rename(df, MapaCanonico), Range(CHAVES_ORIGINAIS))
    IN  [colunas |-> df2.colunas \cup {"semana"},
         linhas |-> [i \in DOMAIN df2.linhas |->
            LET data == to_datetime(df2.linhas[i]["data_fechamento"])
            IN  [df2.linhas[i] EXCEPT !["data_fechamento"] = data]
                  @@ ("semana" :> semana_de(data))]]

preprocessar_dados(dfp, fer) ==
    IF dfp = None
    THEN [op |-> "preprocessar_dados", status |-> "erro",
          valor |-> "Dados principais nao carregados", args |-> <<>>]
    ELSE LET df1 == rename(dfp[1], MapaCanonico)
         IN  IF ~(Range(CHAVES_ORIGINAIS) \subseteq df1.colunas)
             THEN [op |-> "preprocessar_dados", status |-> "erro",
                   valor |-> "Erro no pre-processamento", args |-> <<>>]
             ELSE
               LET df3 == canonico(dfp[1])
                   metas == calcular_metas_semanais(df3, fer)
                   res == agregar(df3)
                   final == [colunas |-> res.colunas \cup {"meta_semana", "meta_batida"},
                             linhas |-> [i \in DOMAIN res.linhas |->
                                LET r == res.linhas[i]
                                    meta == metas[r.semana]
                                IN  [tecnico |-> r.tecnico,
                                     semana |-> r.semana,
                                     produtividade |-> r.produtividade,
                                     protocolos |-> r.protocolos,
                                     meta_semana |-> meta,
                                     meta_batida |->
                                        meta_batida_de(r.produtividade, meta)]]]
               IN  [op |-> "preprocessar_dados", status |-> "ok", valor |-> final,
                    args |-> <<>>]

----------------------------------------------------------------------------
(* Table operations used by the analyzer and the visualizer                *)

\* df[df[col] == v]
filtrar(linhas, col, v) == SelectSeq(linhas, LAMBDA r : r[col] = v)

\* variant: the rows stay in table order
sort_values_ausente(linhas, col) == linhas

\* df.sort_values(col): ascending; rows with equal keys keep their order
RECURSIVE sort_values(_, _)
sort_values(linhas, col) ==
    IF linhas = <<>> THEN <<>>
    ELSE LET r == linhas[Len(linhas)]
             s == sort_values(SubSeq(linhas, 1, Len(linhas) - 1), col)
             k == Cardinality({i \in DOMAIN s : s[i][col] <= r[col]})
         IN  SubSeq(s, 1, k) \o <<r>> \o SubSeq(s, k + 1, Len(s))

\* df.sort_values(col, ascending=False)
RECURSIVE sort_values_desc(_, _)
sort_values_desc(linhas, col) ==
    IF linhas = <<>> THEN <<>>
    ELSE LET r == linhas[Len(linhas)]
             s == sort_values_desc(SubSeq(linhas, 1, Len(linhas) - 1), col)
             k == Cardinality({i \in DOMAIN s : s[i][col] >= r[col]})
         IN  SubSeq(s, 1, k) \o <<r>> \o SubSeq(s, k + 1, Len(s))

\* df.tail(n)
tail(linhas, n) ==
    IF n >= Len(linhas) THEN linhas
    ELSE SubSeq(linhas, Len(linhas) - n + 1, Len(linhas))

\* df.head(n)
head(linhas, n) == IF n >= Len(linhas) THEN linhas ELSE SubSeq(linhas, 1, n)

\* Series.unique(): the distinct values in order of first appearance
RECURSIVE unique(_)
unique(s) ==
    IF s = <<>> THEN <<>>
    ELSE LET u == unique(SubSeq(s, 1, Len(s) - 1))
         IN  IF s[Len(s)] \in Range(u) THEN u ELSE Append(u, s[Len(s)])

coluna(linhas, col) == [i \in DOMAIN linhas |-> linhas[i][col]]

----------------------------------------------------------------------------
(* PerformanceAnalyzer.  Floating-point values are exact rationals,        *)
(* [num |-> n, den |-> d] with d > 0.                                      *)

\* the renaming done by PerformanceAnalyzer.__init__
MapaAnalyzer ==
    ("tecnico" :> COL_TEC) @@ ("semana" :> "Semana")
        @@ ("meta_batida" :> "Meta Batida") @@ ("produtividade" :> COL_PROD)

\* self.df after __init__
analyzer_df(df) == rename(df, MapaAnalyzer)

\* np.polyfit(np.arange(len(y)), y, 1): the least-squares line through the
\* points (i, y[i]), i = 0..len(y)-1, as slope and intercept over one
\* denominator
polyfit(y) ==
    LET n == Len(y)
        Sx == SumSeq([i \in 1..n |-> i - 1])
        Sxx == SumSeq([i \in 1..n |-> (i - 1) * (i - 1)])
        Sy == SumSeq(y)
        Sxy == SumSeq([i \in 1..n |-> (i - 1) * y[i]])
    IN  [den |-> n * Sxx - Sx * Sx,
         slope |-> n * Sxy - Sx * Sy,
         intercept |-> Sy * Sxx - Sx * Sxy]

\* variant: fewer than or exactly the window counts as insufficient
dados_insuficientes_ou_igual(n, periodo_semanas) == n <= periodo_semanas

\* len(dados) < periodo_semanas
dados_insuficientes(n, periodo_semanas) == n < periodo_semanas

\* variant: the thresholds themselves count as rising and falling
classificar_inclusivo(coef) ==
    IF 2 * coef.slope >= coef.den THEN "alta"
    ELSE IF 2 * coef.slope <= -coef.den THEN "baixa"
    ELSE "estavel"

\* 'alta' if coef[0] > 0.5 else 'baixa' if coef[0] < -0.5 else 'estavel'
classificar(coef) ==
    IF 2 * coef.slope > coef.den THEN "alta"
    ELSE IF 2 * coef.slope < -coef.den THEN "baixa"
    ELSE "estavel"

\* variant: the line is evaluated two steps beyond the window's last index
projecao_de_mais_um(coef, periodo_semanas) ==
    [num |-> coef.slope * (periodo_semanas + 1) + coef.intercept, den |-> coef.den]

\* coef[0] * periodo_semanas + coef[1]
projecao_de(coef, periodo_semanas) ==
    [num |-> coef.slope * periodo_semanas + coef.intercept, den |-> coef.den]

\* the default of identificar_tendencia's periodo_semanas
PERIODO_PADRAO == 4

identificar_tendencia(df, tecnico, periodo_semanas) ==
    LET dados == sort_values(filtrar(df.linhas, COL_TEC, tecnico), "Semana")
    IN  IF dados_insuficientes(Len(dados), periodo_semanas)
        THEN [status |-> "insuficiente", message |-> "Dados insuficientes"]
        ELSE
          LET recente == tail(dados, periodo_semanas)
              y == coluna(recente, COL_PROD)
              coef == polyfit(y)
              projecao_date == dados[Len(dados)]["Semana"] + Dias(7)
              tendencia_x == Append(coluna(recente, "Semana"), projecao_date)
              tendencia_y == [i \in DOMAIN tendencia_x |->
                                [num |-> coef.slope * (i - 1) + coef.intercept,
                                 den |-> coef.den]]
          IN  [status |-> "ok",
               tecnico |-> tecnico,
               tendencia |-> classificar(coef),
               coeficiente |-> [num |-> coef.slope, den |-> coef.den],
               projecao |-> projecao_de(coef, periodo_semanas),
               confianca |-> 1,
               dados |-> recente,
               ultima_meta |-> Bool2Int(dados[Len(dados)]["Meta Batida"]),
               tendencia_line |-> [x |-> tendencia_x, y |-> tendencia_y],
               projecao_date |-> projecao_date]

\* variant: two missed weeks alert whatever the week before them
houve_queda_sem_antes(ultimos) ==
    /\ ~ultimos[2]["Meta Batida"]
    /\ ~ultimos[3]["Meta Batida"]

\* the test on the last three rows: met, then missed twice
houve_queda(ultimos) ==
    /\ ultimos[1]["Meta Batida"]
    /\ ~ultimos[2]["Meta Batida"]
    /\ ~ultimos[3]["Meta Batida"]

\* the regions of the model, in the order their names sort
Bairros == <<"Centro", "Norte">>

\* variant: a rate of exactly 0.3 alerts too
taxa_baixa_inclusiva(batidas, total) == 10 * batidas <= 3 * total

\* mean of 'Meta Batida' < 0.3, for batidas met rows out of total
taxa_baixa(batidas, total) == 10 * batidas < 3 * total

gerar_alertas(df) ==
    LET tecnicos == unique(coluna(df.linhas, COL_TEC))
        alertaDe(tecnico) ==
            LET dados == sort_values(filtrar(df.linhas, COL_TEC, tecnico), "Semana")
            IN  IF Len(dados) >= 3 /\ houve_queda(tail(dados, 3))
                THEN <<[tipo |-> "queda_performance", tecnico |-> tecnico,
                        severidade |-> "alta"]>>
                ELSE <<>>
        quedas == Concat([i \in DOMAIN tecnicos |-> alertaDe(tecnicos[i])])
        \* groupby('Bairro')['Meta Batida'].mean() < 0.3, in the order of the index
        bairroDe(b) ==
            LET g == filtrar(df.linhas, "Bairro", b)
                batidas == SumSeq([i \in DOMAIN g |-> Bool2Int(g[i]["Meta Batida"])])
            IN  IF g # <<>> /\ taxa_baixa(batidas, Len(g))
                THEN <<[tipo |-> "bairro_problematico", bairro |-> b,
                        severidade |-> "media"]>>
                ELSE <<>>
        bairros == IF "Bairro" \in df.colunas
                   THEN Concat([i \in DOMAIN Bairros |-> bairroDe(Bairros[i])])
                   ELSE <<>>
    IN  quedas \o bairros

----------------------------------------------------------------------------
(* DashboardVisualizer: streaks                                            *)

RECURSIVE streaks_sem_zerar(_)
\* variant: a missed week does not reset the running positive counter
streaks_sem_zerar(metas) ==
    IF metas = <<>>
    THEN [maior_streak_positivo |-> 0, maior_streak_negativo |-> 0,
          current_pos |-> 0, current_neg |-> 0]
    ELSE LET s == streaks_sem_zerar(SubSeq(metas, 1, Len(metas) - 1))
         IN  IF metas[Len(metas)] = TRUE
             THEN [maior_streak_positivo |->
                       IF s.current_pos + 1 > s.maior_streak_positivo
                       THEN s.current_pos + 1 ELSE s.maior_streak_positivo,
                   maior_streak_negativo |-> s.maior_streak_negativo,
                   current_pos |-> s.current_pos + 1,
                   current_neg |-> 0]
             ELSE [maior_streak_positivo |-> s.maior_streak_positivo,
                   maior_streak_negativo |->
                       IF s.current_neg + 1 > s.maior_streak_negativo
                       THEN s.current_neg + 1 ELSE s.maior_streak_negativo,
                   current_pos |-> s.current_pos,
                   current_neg |-> s.current_neg + 1]

RECURSIVE streaks_loop(_)
\* the loop of _calcular_streaks over the meta_batida column
streaks_loop(metas) ==
    IF metas = <<>>
    THEN [maior_streak_positivo |-> 0, maior_streak_negativo |-> 0,
          current_pos |-> 0, current_neg |-> 0]
    ELSE LET s == streaks_loop(SubSeq(metas, 1, Len(metas) - 1))
         IN  IF metas[Len(metas)] = TRUE
             THEN [maior_streak_positivo |->
                       IF s.current_pos + 1 > s.maior_streak_positivo
                       THEN s.current_pos + 1 ELSE s.maior_streak_positivo,
                   maior_streak_negativo |-> s.maior_streak_negativo,
                   current_pos |-> s.current_pos + 1,
                   current_neg |-> 0]
             ELSE [maior_streak_positivo |-> s.maior_streak_positivo,
                   maior_streak_negativo |->
                       IF s.current_neg + 1 > s.maior_streak_negativo
                       THEN s.current_neg + 1 ELSE s.maior_streak_negativo,
                   current_pos |-> 0,
                   current_neg |-> s.current_neg + 1]

\* variant
calcular_streaks_sem_zerar(dados) == streaks_sem_zerar(coluna(dados, "meta_batida"))

calcular_streaks(dados) == streaks_loop(coluna(dados, "meta_batida"))

\* the rows of df_streaks, and the two tables shown (top 10 of each order)
mostrar_streaks(df) ==
    LET tecnicos == unique(coluna(df.linhas, "tecnico"))
        streaks_data ==
            [i \in DOMAIN tecnicos |->
                LET dados == sort_values(filtrar(df.linhas, "tecnico", tecnicos[i]),
                                         "semana")
                    streak_info == calcular_streaks(dados)
                IN  [Tecnico |-> tecnicos[i],
                     MaiorSequenciaPositiva |-> streak_info.maior_streak_positivo,
                     MaiorSequenciaNegativa |-> streak_info.maior_streak_negativo,
                     TotalSemanas |-> Len(dados)]]
        df_streaks == sort_values_desc(streaks_data, "MaiorSequenciaPositiva")
    IN  [df_streaks |-> df_streaks,
         melhores |-> head(df_streaks, 10),
         piores |-> head(sort_values_desc(df_streaks, "MaiorSequenciaNegativa"), 10)]

----------------------------------------------------------------------------
(* DashboardVisualizer: performance patterns                               *)

\* dados['meta_batida'].diff().abs().sum(): the adjacent positions where
\* the value changes
mudancas(metas) == Cardinality({i \in 2..Len(metas) : metas[i] # metas[i - 1]})

\* variant: only the last two rows are looked at
ultimas_duas(dados, v) ==
    \A x \in Range(coluna(tail(dados, 2), "meta_batida")) : x = v

\* all(dados['meta_batida'].tail(3) == v)
ultimas_tres(dados, v) ==
    \A x \in Range(coluna(tail(dados, 3), "meta_batida")) : x = v

\* variant: two changes are enough
oscilante_dois(dados) == Len(dados) >= 4 /\ mudancas(coluna(dados, "meta_batida")) >= 2

\* the test of the oscillation tab
oscilante(dados) == Len(dados) >= 4 /\ mudancas(coluna(dados, "meta_batida")) > 2

\* variant: the comparison keeps the technicians with a met week
nunca_bateu_invertido(linhas) ==
    SumSeq([i \in DOMAIN linhas |-> Bool2Int(linhas[i]["meta_batida"])]) > 0

\* groupby('tecnico')['meta_batida'].sum() == 0
nunca_bateu(linhas) ==
    SumSeq([i \in DOMAIN linhas |-> Bool2Int(linhas[i]["meta_batida"])]) = 0

\* the four tabs of mostrar_padroes_desempenho.  The growth tab reads
\* iloc[-4] of every series it accepts, which raises IndexError on a series
\* of three rows; the tabs after the failure are not rendered.
mostrar_padroes_desempenho(df) ==
    LET tecnicos == unique(coluna(df.linhas, "tecnico"))
        dadosDe(tecnico) == sort_values(filtrar(df.linhas, "tecnico", tecnico), "semana")
        prod(dados, k) == dados[Len(dados) + 1 - k]["produtividade"]
        quedaDe(tecnico) ==
            LET dados == dadosDe(tecnico)
            IN  IF Len(dados) >= 4 /\ ultimas_tres(dados, FALSE)
                THEN <<[Tecnico |-> tecnico, Semanas |-> 3,
                        Variacao |-> prod(dados, 1) - prod(dados, 4)]>>
                ELSE <<>>
        oscilanteDe(tecnico) ==
            LET dados == dadosDe(tecnico)
            IN  IF oscilante(dados)
                THEN <<[Tecnico |-> tecnico,
                        Mudancas |-> mudancas(coluna(dados, "meta_batida")),
                        ProdutividadeMedia |->
                            [num |-> SumSeq(coluna(dados, "produtividade")),
                             den |-> Len(dados)]]>>
                ELSE <<>>
        aceitaCrescimento(tecnico) ==
            Len(dadosDe(tecnico)) >= 3 /\ ultimas_tres(dadosDe(tecnico), TRUE)
        crescimentoDe(tecnico) ==
            LET dados == dadosDe(tecnico)
            IN  IF aceitaCrescimento(tecnico)
                THEN <<[Tecnico |-> tecnico, Semanas |-> 3,
                        Variacao |-> prod(dados, 1) - prod(dados, 4)]>>
                ELSE <<>>
        fora_dos_limites ==
            \E i \in DOMAIN tecnicos :
                aceitaCrescimento(tecnicos[i]) /\ Len(dadosDe(tecnicos[i])) < 4
        nunca == SelectSeq(Tecnicos,
                           LAMBDA t : /\ filtrar(df.linhas, "tecnico", t) # <<>>
                                      /\ nunca_bateu(filtrar(df.linhas, "tecnico", t)))
        queda == sort_values(Concat([i \in DOMAIN tecnicos |-> quedaDe(tecnicos[i])]),
                             "Variacao")
        oscilantes ==
            sort_values_desc(Concat([i \in DOMAIN tecnicos |-> oscilanteDe(tecnicos[i])]),
                             "Mudancas")
    IN  IF fora_dos_limites
        THEN [status |-> "IndexError", queda |-> queda, oscilantes |-> oscilantes,
              crescimento |-> <<>>, nunca_bateram |-> <<>>]
        ELSE [status |-> "ok", queda |-> queda, oscilantes |-> oscilantes,
              crescimento |->
                  sort_values_desc(
                      Concat([i \in DOMAIN tecnicos |-> crescimentoDe(tecnicos[i])]),
                      "Variacao"),
              nunca_bateram |-> nunca]

----------------------------------------------------------------------------
(* DashboardVisualizer: ranking and evolution; prever_meta_proxima_semana  *)

\* _processar_dados_consistencia and the ranking shown: one row per
\* technician, in the order of the names, sorted by the percentage of goals
\* met (in hundredths of a percent, rounded), highest first
mostrar_ranking_consistencia(df) ==
    IF ~({"tecnico", "semana", "produtividade", "meta_batida"} \subseteq df.colunas)
    THEN [status |-> "ValueError", ranking |-> <<>>]
    ELSE
      LET presentes == SelectSeq(Tecnicos,
                                 LAMBDA t : filtrar(df.linhas, "tecnico", t) # <<>>)
          linhaDe(t) ==
              LET g == filtrar(df.linhas, "tecnico", t)
                  batidas == SumSeq([i \in DOMAIN g |-> Bool2Int(g[i]["meta_batida"])])
              IN  [tecnico |-> t,
                   total_ciclos |-> Len(g),
                   meta_batida |-> batidas,
                   media_produtividade |->
                       [num |-> SumSeq(coluna(g, "produtividade")), den |-> Len(g)],
                   percentual_metas_batidas |->
                       (20000 * batidas + Len(g)) \div (2 * Len(g))]
          consistencia == [i \in DOMAIN presentes |-> linhaDe(presentes[i])]
      IN  [status |-> "ok",
           ranking |-> sort_values_desc(consistencia, "percentual_metas_batidas")]

\* mostrar_evolucao_produtividade: every failure inside is caught and shown
\* as an error.  The chart needs the columns 'Semana', 'Nome Colaborador'
\* and the productivity column; the variation table subtracts the last two
\* week columns of the pivot and fails when there are fewer than two weeks.
mostrar_evolucao_produtividade(df) ==
    IF ~({"Semana", COL_TEC, COL_PROD} \subseteq df.colunas)
    THEN [status |-> "erro", causa |-> "KeyError", grafico |-> FALSE,
          variacao |-> <<>>]
    ELSE
      LET semanas == SetToSeqAsc({r["Semana"] : r \in Range(df.linhas)})
          total(t, s) ==
              LET g == SelectSeq(df.linhas,
                                 LAMBDA r : r[COL_TEC] = t /\ r["Semana"] = s)
              IN  IF g = <<>> THEN NaN ELSE SumSeq(coluna(g, COL_PROD))
          n == Len(semanas)
          noPivot == SelectSeq(Tecnicos,
                        LAMBDA t : \E r \in Range(df.linhas) :
                            r[COL_TEC] = t /\ r["Semana"] \in {semanas[n], semanas[n - 1]})
          variacaoDe(t) ==
              IF total(t, semanas[n]) = NaN \/ total(t, semanas[n - 1]) = NaN
              THEN NaN
              ELSE total(t, semanas[n]) - total(t, semanas[n - 1])
      IN  IF n < 2
          THEN [status |-> "erro", causa |-> "IndexError", grafico |-> TRUE,
                variacao |-> <<>>]
          ELSE [status |-> "ok", causa |-> "nenhuma", grafico |-> TRUE,
                variacao |-> [i \in DOMAIN noPivot |->
                                [Tecnico |-> noPivot[i],
                                 Variacao |-> variacaoDe(noPivot[i])]]]

\* prever_meta_proxima_semana(tecnico, modelo) on self.df
prever_meta_proxima_semana(df, tecnico, modelo) ==
    LET dados == sort_values(filtrar(df.linhas, COL_TEC, tecnico), "Semana")
    IN  IF Len(dados) < 3
        THEN [status |-> "insuficiente", message |-> "Dados insuficientes"]
        ELSE IF "Pontuacao" \notin df.colunas
        THEN [status |-> "KeyError", message |-> "Pontuacao"]
        ELSE
          LET y == coluna(dados, "Pontuacao")
              coef == polyfit(y)
              previsao ==
                  IF modelo = "media_movel"
                  THEN [num |-> SumSeq(tail(y, 3)), den |-> 3]
                  ELSE [num |-> coef.slope * (Len(dados) + 1) + coef.intercept,
                        den |-> coef.den]
          IN  IF "Meta Semana" \notin df.colunas
              THEN [status |-> "KeyError", message |-> "Meta Semana"]
              ELSE
                LET ultima_meta == dados[Len(dados)]["Meta Semana"]
                IN  [status |-> "ok",
                     previsao |-> previsao,
                     ultima_meta |-> ultima_meta,
                     diferenca |-> [num |-> previsao.num - ultima_meta * previsao.den,
                                    den |-> previsao.den],
                     modelo |-> modelo]

----------------------------------------------------------------------------
(* Inputs of the data-processing specification                             *)

\* closing-date cells: every instant of the first NumDias days, and a cell
\* that does not parse
Celulas ==
    {Dias(d) + k : d \in 0..(NumDias - 1), k \in 0..(TicksPorDia - 1)}
        \cup {DataInvalida}

Produtividades == {20, 40}

LinhasBrutas ==
    {(COL_DATA :> d) @@ (COL_PROD :> p) @@ (COL_PROT :> 1) @@ (COL_TEC :> t) :
        d \in Celulas, p \in Produtividades, t \in Range(Tecnicos)}

LinhaBruta(d, p, id, t) ==
    (COL_DATA :> d) @@ (COL_PROD :> p) @@ (COL_PROT :> id) @@ (COL_TEC :> t)

\* the first rows of a sheet: none, a record of A on the first Tuesday with
\* a time of day, or a record of A on the first Monday at midnight whose
\* protocol identifier is empty
Contextos ==
    {<<>>, <<LinhaBruta(Dias(1) + 1, 20, 1, "A")>>,
     <<LinhaBruta(Dias(0), 40, NaN, "A")>>}

\* spreadsheets with every required column: first rows, then up to
\* MaxLinhasLivres rows of any content
PlanilhasCompletas ==
    {[colunas |-> Range(COLUNAS_OBRIGATORIAS), linhas |-> c \o l] :
        c \in Contextos,
        l \in UNION {[1..n -> LinhasBrutas] : n \in 0..MaxLinhasLivres}}

\* spreadsheets with any set of columns (one row)
LinhaExemplo ==
    (COL_DATA :> Dias(2)) @@ (COL_PROD :> 40) @@ (COL_PROT :> 1)
        @@ (COL_TEC :> "A") @@ ("Bairro" :> "Centro")

PlanilhasQuaisquer ==
    {[colunas |-> c, linhas |-> <<[x \in c |-> LinhaExemplo[x]]>>] :
        c \in SUBSET (Range(COLUNAS_OBRIGATORIAS) \cup {"Bairro"})}

Planilhas == PlanilhasCompletas \cup PlanilhasQuaisquer

\* holiday lists (instants at midnight): none, a Monday, a Monday and the
\* Sunday of the same week
Calendarios == {{}, {Dias(0)}, {Dias(0), Dias(6)}}

SemRetorno == [op |-> "nenhuma", status |-> "ok", valor |-> <<>>, args |-> <<>>]

----------------------------------------------------------------------------
(* The data-processing run: DashboardApp._carregar_dados                   *)

Init ==
    /\ df_principal = None
    /\ feriados \in Calendarios
    /\ resumo = None
    /\ ret = SemRetorno
    /\ secao = "upload"

\* carregar_dados_principal on a readable file
Carregar ==
    /\ secao = "upload"
    /\ \E p \in Planilhas : df_principal' = Some(p)
    /\ ret' = [op |-> "carregar_dados_principal", status |-> "ok", valor |-> <<>>,
               args |-> <<>>]
    /\ secao' = "carregado"
    /\ UNCHANGED <<feriados, resumo>>

\* carregar_dados_principal on a file that cannot be read: the run stops
CarregarFalha ==
    /\ secao = "upload"
    /\ ret' = [op |-> "carregar_dados_principal", status |-> "erro",
               valor |-> "Erro ao ler arquivo", args |-> <<>>]
    /\ secao' = "parado"
    /\ UNCHANGED <<df_principal, feriados, resumo>>

\* variant: the run goes on after a failed validation
ValidarSemParar ==
    /\ secao = "carregado"
    /\ ret' = validar_colunas(df_principal[1])
    /\ secao' = "validado"
    /\ UNCHANGED <<df_principal, feriados, resumo>>

\* validar_colunas(df_principal); a failure stops the run
Validar ==
    /\ secao = "carregado"
    /\ LET r == validar_colunas(df_principal[1])
       IN  /\ ret' = r
           /\ secao' = IF r.status = "ok" THEN "validado" ELSE "parado"
    /\ UNCHANGED <<df_principal, feriados, resumo>>

\* variant: preprocessar_dados works on the loaded frame itself instead of
\* a copy of it
PreprocessarSemCopia ==
    /\ secao = "validado"
    /\ LET r == preprocessar_dados(df_principal, feriados)
       IN  /\ ret' = r
           /\ resumo' = IF r.status = "ok" THEN Some(r.valor) ELSE resumo
           /\ df_principal' = IF r.status = "ok"
                              THEN Some(canonico(df_principal[1]))
                              ELSE df_principal
           /\ secao' = IF r.status = "ok" THEN "geral" ELSE "parado"
    /\ UNCHANGED feriados

\* self.resumo = preprocessar_dados(self.feriados); a failure stops the run
Preprocessar ==
    /\ secao = "validado"
    /\ LET r == preprocessar_dados(df_principal, feriados)
       IN  /\ ret' = r
           /\ resumo' = IF r.status = "ok" THEN Some(r.valor) ELSE resumo
           /\ secao' = IF r.status = "ok" THEN "geral" ELSE "parado"
    /\ UNCHANGED <<df_principal, feriados>>

Next == Carregar \/ CarregarFalha \/ Validar \/ Preprocessar

Spec == Init /\ [][Next]_vars

----------------------------------------------------------------------------
(* Properties of the data-processing run                                   *)

LinhasResumo == IF resumo = None THEN {} ELSE Range(resumo[1].linhas)

\* the rows of the loaded table that preprocessar_dados aggregated into r
Agregadas(r) == Range(grupo(canonico(df_principal[1]), r.tecnico, r.semana))

\* calendar arithmetic written without the program's operators
EhSegunda(t) == (t \div TicksPorDia) % 7 = 0
SemanaCivil(t) == (t \div TicksPorDia) \div 7

\* C1: every summary row's week start is a Monday, is on or before each
\* closing date aggregated into the row, and is at most 6 days before it.
C1_SemanaSegunda ==
    \A r \in LinhasResumo :
        /\ EhSegunda(r.semana)
        /\ Agregadas(r) # {}
        /\ \A x \in Agregadas(r) :
              /\ r.semana <= x["data_fechamento"]
              /\ x["data_fechamento"] - r.semana <= 6 * TicksPorDia

\* a summary row that aggregates a closing date on a Sunday afternoon, six
\* days after its week start
C1_Witness ==
    \E r \in LinhasResumo :
        /\ r.semana % TicksPorDia # 0
        /\ \E x \in Agregadas(r) : x["data_fechamento"] = r.semana + 6 * TicksPorDia

\* C2: in every summary row, meta_batida is true exactly when
\* produtividade >= meta_semana.
C2_MetaBatidaDerivada ==
    \A r \in LinhasResumo :
        r.meta_batida <=> (r.produtividade >= r.meta_semana)

\* a summary with a row that meets its goal exactly and a row that misses it
C2_Witness ==
    \E r1, r2 \in LinhasResumo :
        /\ r1.produtividade = r1.meta_semana /\ r1.meta_batida
        /\ r2.produtividade < r2.meta_semana /\ ~r2.meta_batida

\* the instants week_start + i days, i = 0..6, that are in the holiday list
FeriadosNaJanela(semana, fer) ==
    {i \in 0..6 : semana + i * TicksPorDia \in fer}

RegistrosDe(tecnico, w) ==
    SelectSeq(df_principal[1].linhas,
              LAMBDA x : /\ x[COL_TEC] = tecnico
                         /\ x[COL_DATA] >= 0
                         /\ SemanaCivil(x[COL_DATA]) = w)

SemanasCivis == 0..((NumDias - 1) \div 7)

\* C4: the summary holds exactly one row for each (technician, calendar
\* week) with at least one record with a valid closing date, and the row's
\* produtividade is the sum over all the technician's records of that week,
\* whether or not the closing dates carry a time of day.
C4_UmaLinhaPorSemana ==
    resumo # None =>
        /\ \A t \in Range(Tecnicos), w \in SemanasCivis :
              LET regs == RegistrosDe(t, w)
                  linhas == {i \in DOMAIN resumo[1].linhas :
                                /\ resumo[1].linhas[i].tecnico = t
                                /\ SemanaCivil(resumo[1].linhas[i].semana) = w}
              IN  IF regs = <<>>
                  THEN linhas = {}
                  ELSE /\ Cardinality(linhas) = 1
                       /\ \A i \in linhas :
                             resumo[1].linhas[i].produtividade =
                                 SumSeq([j \in DOMAIN regs |-> regs[j][COL_PROD]])

\* C5: validar_colunas returns True when every required column is present;
\* otherwise it fails with one error that lists exactly the required columns
\* absent from the table, each once.
C5_ColunasFaltantes ==
    ret.op = "validar_colunas" =>
        LET ausentes == Range(COLUNAS_OBRIGATORIAS) \ df_principal[1].colunas
        IN  /\ (ret.status = "ok") <=> (ausentes = {})
            /\ ret.status \in {"ok", "erro"}
            /\ ret.status = "erro" =>
                  /\ Range(ret.valor) = ausentes
                  /\ Len(ret.valor) = Cardinality(ausentes)

\* a validation that failed on a table missing two of the four columns
C5_Witness ==
    /\ ret.op = "validar_colunas"
    /\ ret.status = "erro"
    /\ Len(ret.valor) = 2
    /\ Cardinality(Range(COLUNAS_OBRIGATORIAS) \ df_principal[1].colunas) = 2

----------------------------------------------------------------------------
(* The analysis of a summary table: PerformanceAnalyzer and the streaks    *)
(* view, applied to summaries of the shape preprocessar_dados returns.     *)

ProdutividadesSemana == {39, 40, 41}

\* a summary row of a week without holidays
LinhaResumo(tecnico, w, produtividade) ==
    [tecnico |-> tecnico,
     semana |-> Dias(7 * w),
     produtividade |-> produtividade,
     protocolos |-> 1,
     meta_semana |-> SEMANAL,
     meta_batida |-> meta_batida_de(produtividade, SEMANAL)]

\* the rows of a technician whose weekly totals are serie, a week every
\* passo weeks
LinhasSerie(tecnico, serie, passo) ==
    [i \in DOMAIN serie |-> LinhaResumo(tecnico, (i - 1) * passo, serie[i])]

Reverse(s) == [i \in DOMAIN s |-> s[Len(s) + 1 - i]]

\* technician B's totals, the spacing of A's weeks, and whether the rows
\* come in descending order
Arranjos ==
    { <<(<<>>), 1, FALSE>>, <<(<<40, 39, 39>>), 1, FALSE>>,
      <<(<<40, 39, 39>>), 2, TRUE>>, <<(<<39>>), 1, TRUE>> }

ResumosAnalise ==
    {LET l == LinhasSerie("A", a, arr[2]) \o LinhasSerie("B", arr[1], 1)
     IN  [colunas |-> {"tecnico", "semana", "produtividade", "protocolos",
                       "meta_semana", "meta_batida"},
          linhas |-> IF arr[3] THEN Reverse(l) ELSE l] :
        a \in UNION {[1..n -> ProdutividadesSemana] : n \in 0..MaxSerie},
        arr \in Arranjos}

\* the technicians asked about: those of the model and one with no row
TecnicosConsultados == Range(Tecnicos) \cup {"C"}

InitAnalise ==
    /\ df_principal = None
    /\ feriados = {}
    /\ resumo \in {Some(t) : t \in ResumosAnalise}
    /\ ret = SemRetorno
    /\ secao = "geral"

\* _mostrar_secao_analise_geral: the streaks view
MostrarStreaks ==
    /\ secao = "geral"
    /\ ret' = [op |-> "mostrar_streaks", status |-> "ok",
               valor |-> mostrar_streaks(resumo[1]), args |-> <<>>]
    /\ secao' = "tecnicos"
    /\ UNCHANGED <<df_principal, feriados, resumo>>

\* _mostrar_secao_tecnicos: the trend of a technician over a window
IdentificarTendencia ==
    /\ secao = "tecnicos"
    /\ \E tecnico \in TecnicosConsultados, periodo_semanas \in MinJanela..MaxJanela :
          ret' = [op |-> "identificar_tendencia", status |-> "ok",
                  valor |-> identificar_tendencia(analyzer_df(resumo[1]), tecnico,
                                                  periodo_semanas),
                  args |-> <<tecnico, periodo_semanas>>]
    /\ secao' = "insights"
    /\ UNCHANGED <<df_principal, feriados, resumo>>

\* _mostrar_secao_insights: the alerts
GerarAlertas ==
    /\ secao = "insights"
    /\ ret' = [op |-> "gerar_alertas", status |-> "ok",
               valor |-> gerar_alertas(analyzer_df(resumo[1])), args |-> <<>>]
    /\ secao' = "padroes"
    /\ UNCHANGED <<df_principal, feriados, resumo>>

\* _mostrar_secao_insights: the performance patterns; an exception stops
\* the run
MostrarPadroes ==
    /\ secao = "padroes"
    /\ LET r == mostrar_padroes_desempenho(resumo[1])
       IN  /\ ret' = [op |-> "mostrar_padroes_desempenho", status |-> r.status,
                      valor |-> r, args |-> <<>>]
           /\ secao' = IF r.status = "ok" THEN "fim" ELSE "parado"
    /\ UNCHANGED <<df_principal, feriados, resumo>>

NextAnalise == MostrarStreaks \/ IdentificarTendencia \/ GerarAlertas \/ MostrarPadroes

SpecAnalise == InitAnalise /\ [][NextAnalise]_vars

----------------------------------------------------------------------------
(* Properties of the analysis.  The order of a technician's weeks is       *)
(* stated by counting earlier weeks, without the program's sort.           *)

\* the indices of the summary rows of a technician
IndicesDe(tecnico) ==
    {i \in DOMAIN resumo[1].linhas : resumo[1].linhas[i].tecnico = tecnico}

\* the technician's k-th row in ascending week order, k = 1..number of rows
NaOrdem(tecnico, k) ==
    LET idx == IndicesDe(tecnico)
        i == CHOOSE i \in idx :
                Cardinality({j \in idx : resumo[1].linhas[j].semana
                                           < resumo[1].linhas[i].semana}) = k - 1
    IN  resumo[1].linhas[i]

NumLinhasDe(tecnico) == Cardinality(IndicesDe(tecnico))

\* the last w totals of a technician, oldest first
UltimosTotais(tecnico, w) ==
    [i \in 1..w |-> NaOrdem(tecnico, NumLinhasDe(tecnico) - w + i).produtividade]

\* the goal outcomes of a technician, oldest first
SequenciaMetas(tecnico) ==
    [k \in 1..NumLinhasDe(tecnico) |-> NaOrdem(tecnico, k).meta_batida]

\* the least-squares slope of the points (i, y[i+1]), i = 0..w-1, as the
\* ratio Cov/Var of the centred sums, both scaled by w * w
Cov(y) ==
    LET w == Len(y)
        Sx == SumSeq([i \in 1..w |-> i - 1])
        Sy == SumSeq(y)
    IN  SumSeq([i \in 1..w |-> (w * (i - 1) - Sx) * (w * y[i] - Sy)])

Var(y) ==
    LET w == Len(y)
        Sx == SumSeq([i \in 1..w |-> i - 1])
    IN  SumSeq([i \in 1..w |-> (w * (i - 1) - Sx) * (w * (i - 1) - Sx)])

ChamadaTendencia == ret.op = "identificar_tendencia"
TendenciaOk == ChamadaTendencia /\ ret.valor.status = "ok"

\* C6: identificar_tendencia(technician, W) returns 'insuficiente' exactly
\* when the technician has fewer than W rows, and then carries no slope,
\* direction or projection; with at least W rows it returns 'ok' with a
\* direction among alta, baixa, estavel.
C6_InsuficienteSse ==
    ChamadaTendencia =>
        LET n == NumLinhasDe(ret.args[1])
            W == ret.args[2]
        IN  /\ (ret.valor.status = "insuficiente") <=> (n < W)
            /\ ret.valor.status = "insuficiente" =>
                  DOMAIN ret.valor = {"status", "message"}
            /\ n >= W =>
                  /\ ret.valor.status = "ok"
                  /\ ret.valor.tendencia \in {"alta", "baixa", "estavel"}

\* a call with exactly W rows (status ok) is reached
C6_Witness ==
    /\ TendenciaOk
    /\ NumLinhasDe(ret.args[1]) = ret.args[2]

C8_Projecao ==
    TendenciaOk =>
        LET t == ret.args[1]
            W == ret.args[2]
            y == UltimosTotais(t, W)
            Sx == SumSeq([i \in 1..W |-> i - 1])
        IN  /\ ret.valor.projecao.num * (W * Var(y)) =
                  ret.valor.projecao.den * (SumSeq(y) * Var(y) + Cov(y) * (W * W - Sx))
            /\ ret.valor.projecao.den > 0
            /\ ret.valor.projecao_date =
                  Max({resumo[1].linhas[i].semana : i \in IndicesDe(t)})
                      + 7 * TicksPorDia

\* a rising window of three weeks out of more, with weeks two weeks apart
C8_Witness ==
    /\ TendenciaOk
    /\ ret.args[2] = 3
    /\ NumLinhasDe(ret.args[1]) > 3
    /\ Cov(UltimosTotais(ret.args[1], 3)) > 0
    /\ ret.valor.projecao_date > NumLinhasDe(ret.args[1]) * 7 * TicksPorDia

\* the decline condition of a technician, on the week order
EmQueda(tecnico) ==
    LET n == NumLinhasDe(tecnico)
    IN  /\ n >= 3
        /\ NaOrdem(tecnico, n - 2).meta_batida
        /\ ~NaOrdem(tecnico, n - 1).meta_batida
        /\ ~NaOrdem(tecnico, n).meta_batida

AlertasQueda(tecnico) ==
    {i \in DOMAIN ret.valor :
        /\ ret.valor[i].tipo = "queda_performance"
        /\ ret.valor[i].tecnico = tecnico}

\* C9: gerar_alertas emits a 'queda_performance' alert of severity 'alta'
\* for a technician exactly when the technician has at least 3 rows and, in
\* ascending week order, met the goal at the third-from-last row and missed
\* it at the last two; at most one such alert per technician.
C9_AlertaQueda ==
    ret.op = "gerar_alertas" =>
        /\ \A t \in TecnicosConsultados :
              /\ Cardinality(AlertasQueda(t)) = IF EmQueda(t) THEN 1 ELSE 0
              /\ \A i \in AlertasQueda(t) : ret.valor[i].severidade = "alta"
        /\ \A i \in DOMAIN ret.valor :
              ret.valor[i].tipo = "queda_performance" =>
                  ret.valor[i].tecnico \in TecnicosConsultados

\* both technicians in decline, rows given in descending order
C9_Witness ==
    /\ ret.op = "gerar_alertas"
    /\ Len(ret.valor) = 2
    /\ EmQueda("A") /\ EmQueda("B")
    /\ NumLinhasDe("A") > 3
    /\ resumo[1].linhas[1].semana > resumo[1].linhas[Len(resumo[1].linhas)].semana

\* the length of the longest run of consecutive values equal to v
MaiorSequencia(metas, v) ==
    Max({n \in 0..Len(metas) :
            n = 0 \/ \E i \in 1..(Len(metas) - n + 1) :
                        \A k \in i..(i + n - 1) : metas[k] = v})

\* C10: for every goal sequence, the longest positive streak is the length
\* of the longest run of consecutive true values and the longest negative
\* streak that of consecutive false values (0 when there is none); for
\* [T,T,F,T,T,T] these are 3 and 1.
C10_Streaks ==
    /\ streaks_loop(<<TRUE, TRUE, FALSE, TRUE, TRUE, TRUE>>).maior_streak_positivo = 3
    /\ streaks_loop(<<TRUE, TRUE, FALSE, TRUE, TRUE, TRUE>>).maior_streak_negativo = 1
    /\ ret.op = "mostrar_streaks" =>
          /\ {e.Tecnico : e \in Range(ret.valor.df_streaks)}
                = {t \in TecnicosConsultados : NumLinhasDe(t) > 0}
          /\ Len(ret.valor.df_streaks)
                = Cardinality({t \in TecnicosConsultados : NumLinhasDe(t) > 0})
          /\ \A e \in Range(ret.valor.df_streaks) :
                /\ e.MaiorSequenciaPositiva
                      = MaiorSequencia(SequenciaMetas(e.Tecnico), TRUE)
                /\ e.MaiorSequenciaNegativa
                      = MaiorSequencia(SequenciaMetas(e.Tecnico), FALSE)

\* the streaks of a technician whose outcomes are T,T,F,T,T,T
C10_Witness ==
    /\ ret.op = "mostrar_streaks"
    /\ NumLinhasDe("A") = 6
    /\ SequenciaMetas("A") = <<TRUE, TRUE, FALSE, TRUE, TRUE, TRUE>>
    /\ \E e \in Range(ret.valor.df_streaks) :
          /\ e.Tecnico = "A"
          /\ e.MaiorSequenciaPositiva = 3
          /\ e.MaiorSequenciaNegativa = 1

----------------------------------------------------------------------------
(* Properties of the performance patterns                                  *)

ChamadaPadroes == ret.op = "mostrar_padroes_desempenho"

TecnicosPresentes == {t \in Range(Tecnicos) : NumLinhasDe(t) > 0}

\* the number of adjacent weeks, in ascending week order, whose goal
\* outcomes differ
Trocas(tecnico) ==
    LET m == SequenciaMetas(tecnico)
    IN  Cardinality({k \in 1..(Len(m) - 1) : m[k] # m[k + 1]})

\* the last three weeks of a technician all have the goal outcome v
TresUltimas(tecnico, v) ==
    LET n == NumLinhasDe(tecnico)
    IN  n >= 3 /\ \A k \in (n - 2)..n : NaOrdem(tecnico, k).meta_batida = v

\* C11: the growth detector completes on every summary and lists a
\* technician only when the technician has at least 4 weekly rows and the
\* last 3 are goal-met, reporting the last productivity minus the
\* fourth-from-last; a technician with exactly 3 rows, all goal-met, is not
\* listed and does not make the detector fail.
C11_CrescimentoSustentado ==
    ChamadaPadroes =>
        /\ ret.status = "ok"
        /\ \A e \in Range(ret.valor.crescimento) :
              LET n == NumLinhasDe(e.Tecnico)
              IN  /\ n >= 4
                  /\ TresUltimas(e.Tecnico, TRUE)
                  /\ e.Variacao = NaOrdem(e.Tecnico, n).produtividade
                                    - NaOrdem(e.Tecnico, n - 3).produtividade

\* C12: the oscillation detector lists a technician if and only if the
\* technician has at least 4 weekly rows and more than 2 adjacent changes
\* of goal_met over the whole series in ascending week order.
C12_Oscilantes ==
    ChamadaPadroes =>
        \A t \in Range(Tecnicos) :
            (\E e \in Range(ret.valor.oscilantes) : e.Tecnico = t)
                <=> (NumLinhasDe(t) >= 4 /\ Trocas(t) > 2)

\* a technician listed with three changes over four weeks, in a summary
\* whose rows are not in week order
C12_Witness ==
    /\ ChamadaPadroes
    /\ \E e \in Range(ret.valor.oscilantes) :
          /\ NumLinhasDe(e.Tecnico) = 4
          /\ e.Mudancas = 3
          /\ resumo[1].linhas[1].semana > resumo[1].linhas[2].semana

\* C13: the 'never met goal' list holds exactly the technicians present in
\* the summary whose series has no goal-met row.
C13_NuncaBateram ==
    ChamadaPadroes =>
        Range(ret.valor.nunca_bateram) =
            {t \in TecnicosPresentes :
                \A k \in 1..NumLinhasDe(t) : ~NaOrdem(t, k).meta_batida}

----------------------------------------------------------------------------
(* Properties of the data-processing run: rows that are dropped or counted *)

ChamadaPreprocessar == ret.op = "preprocessar_dados"

\* the rows of a sheet whose closing date does not parse
NaoParseiam(df) == SelectSeq(df.linhas, LAMBDA x : x[COL_DATA] = DataInvalida)

\* the sheet without those rows
SemNaoParseadas(df) ==
    [df EXCEPT !.linhas = SelectSeq(df.linhas, LAMBDA x : x[COL_DATA] # DataInvalida)]

\* C14: a row whose closing date cannot be parsed never makes
\* preprocessar_dados fail and contributes to no summary row: the summary is
\* the summary of the same sheet without those rows, and the productivity of
\* the summary adds up to that of the rows whose date parsed.
C14_DataInvalidaDescartada ==
    ChamadaPreprocessar =>
        /\ ret.status = "ok"
        /\ ret.valor =
              preprocessar_dados(Some(SemNaoParseadas(df_principal[1])), feriados).valor
        /\ SumSeq(coluna(ret.valor.linhas, "produtividade")) =
              SumSeq(coluna(SemNaoParseadas(df_principal[1]).linhas, COL_PROD))

\* a sheet with a row that parses and a row that does not, summarised into
\* one row
C14_Witness ==
    /\ ChamadaPreprocessar
    /\ ret.status = "ok"
    /\ Len(NaoParseiam(df_principal[1])) = 1
    /\ Len(df_principal[1].linhas) = 2
    /\ Len(ret.valor.linhas) = 1

\* C15: after preprocessar_dados the number of rows dropped for an
\* unparseable closing date is exposed to the caller; stated on what the
\* call hands back: two sheets that give the caller the same value dropped
\* the same number of rows.
C15_ContagemExposta ==
    (ChamadaPreprocessar /\ ret.status = "ok") =>
        \A p \in PlanilhasCompletas :
            preprocessar_dados(Some(p), feriados).valor = ret.valor
                => Len(NaoParseiam(p)) = Len(NaoParseiam(df_principal[1]))

\* C16: in every summary row, protocolos is the number of loaded rows
\* aggregated into the row's (tecnico, semana) group, rows with an empty
\* protocol identifier included.
C16_ContagemRegistros ==
    \A r \in LinhasResumo :
        r.protocolos = Len(grupo(canonico(df_principal[1]), r.tecnico, r.semana))

----------------------------------------------------------------------------
(* The full run of the application: DashboardApp.run                       *)

\* datetime.now().year when the application starts
AnosExecucao == {2024, 2025, 2026}

\* one record a week for a technician, on Mondays at midnight from
\* 2024-01-01
LinhasSemanais(tecnico, serie) ==
    [i \in DOMAIN serie |-> LinhaBruta(Dias(7 * (i - 1)), serie[i], 1, tecnico)]

\* technician B's records: none, or one on Wednesday 2025-01-01
RegistrosB == {<<>>, <<LinhaBruta(Dias(366), 40, 1, "B")>>}

\* the uploaded sheets: up to MaxSemanasApp weekly records of A followed by
\* B's records, and the sheets with any set of columns
PlanilhasApp ==
    {[colunas |-> Range(COLUNAS_OBRIGATORIAS),
      linhas |-> LinhasSemanais("A", a) \o b] :
        a \in UNION {[1..n -> Produtividades] : n \in 0..MaxSemanasApp},
        b \in RegistrosB}
    \cup PlanilhasQuaisquer

\* DashboardApp.__init__: self.feriados = get_feriados_ano()
InitApp ==
    /\ df_principal = None
    /\ feriados \in {get_feriados_ano(ano) : ano \in AnosExecucao}
    /\ resumo = None
    /\ ret = SemRetorno
    /\ secao = "upload"

\* DataProcessor(uploaded_file, {}).carregar_dados_principal()
CarregarArquivo ==
    /\ secao = "upload"
    /\ \E p \in PlanilhasApp : df_principal' = Some(p)
    /\ ret' = [op |-> "carregar_dados_principal", status |-> "ok", valor |-> <<>>,
               args |-> <<>>]
    /\ secao' = "carregado"
    /\ UNCHANGED <<feriados, resumo>>

\* _mostrar_secao_analise_geral: the ranking, the three metrics, the streaks
\* and the evolution chart.  mostrar_streaks sorts the frame built from its
\* list of technicians by a column, which an empty list does not give it.
secao_analise_geral(res) ==
    LET ranking == mostrar_ranking_consistencia(res)
        vazio == [status |-> "ok", causa |-> "nenhuma", grafico |-> FALSE,
                  variacao |-> <<>>]
    IN  IF ranking.status # "ok"
        THEN [status |-> ranking.status, ranking |-> <<>>, total_tecnicos |-> 0,
              semanas |-> 0, streaks |-> <<>>, evolucao |-> vazio]
        ELSE IF res.linhas = <<>>
        THEN [status |-> "KeyError", ranking |-> ranking.ranking,
              total_tecnicos |-> 0, semanas |-> 0, streaks |-> <<>>,
              evolucao |-> vazio]
        ELSE [status |-> "ok",
              ranking |-> ranking.ranking,
              total_tecnicos |-> Cardinality(Range(coluna(res.linhas, "tecnico"))),
              semanas |-> Cardinality(Range(coluna(res.linhas, "semana"))),
              streaks |-> mostrar_streaks(res).df_streaks,
              evolucao |-> mostrar_evolucao_produtividade(res)]

\* DashboardVisualizer.mostrar_tendencia_tecnico: a warning when the trend is
\* not available; otherwise the metrics, the chart and the recommendation,
\* chosen by comparing analise['tendencia'] with 'positiva' and 'negativa'
mostrar_tendencia_tecnico(analise) ==
    IF analise.status # "ok"
    THEN [aviso |-> TRUE, recomendacao |-> "nenhuma"]
    ELSE [aviso |-> FALSE,
          recomendacao |->
              IF analise.tendencia = "positiva" THEN "crescimento"
              ELSE IF analise.tendencia = "negativa" THEN "queda"
              ELSE "estabilidade"]

\* _mostrar_secao_tecnicos for the selected technician: the trend over the
\* default window (a warning when it is not available) and the three tabs
secao_tecnicos(res, tecnico_selecionado) ==
    LET analise == identificar_tendencia(analyzer_df(analyzer_df(res)),
                                         tecnico_selecionado, PERIODO_PADRAO)
        exibicao == mostrar_tendencia_tecnico(analise)
    IN  [tecnico |-> tecnico_selecionado,
         analise |-> analise,
         aviso |-> exibicao.aviso,
         tendencia_exibida |-> ~exibicao.aviso,
         recomendacao |-> exibicao.recomendacao,
         abas |-> TRUE]

\* _mostrar_secao_insights: the alerts, then the performance patterns
secao_insights(res) ==
    LET padroes == mostrar_padroes_desempenho(res)
    IN  [status |-> padroes.status,
         alertas |-> gerar_alertas(analyzer_df(res)),
         padroes |-> padroes]

\* run: self._mostrar_secao_analise_geral(); an exception stops the run
SecaoAnaliseGeral ==
    /\ secao = "geral"
    /\ LET r == secao_analise_geral(resumo[1])
       IN  /\ ret' = [op |-> "secao_analise_geral", status |-> r.status,
                      valor |-> r, args |-> <<>>]
           /\ secao' = IF r.status = "ok" THEN "tecnicos" ELSE "parado"
    /\ UNCHANGED <<df_principal, feriados, resumo>>

\* run: self._mostrar_secao_tecnicos(), for any technician of the select box
SecaoTecnicos ==
    /\ secao = "tecnicos"
    /\ \E tecnico_selecionado \in Range(coluna(resumo[1].linhas, "tecnico")) :
          ret' = [op |-> "secao_tecnicos", status |-> "ok",
                  valor |-> secao_tecnicos(resumo[1], tecnico_selecionado),
                  args |-> <<tecnico_selecionado>>]
    /\ secao' = "insights"
    /\ UNCHANGED <<df_principal, feriados, resumo>>

\* run: self._mostrar_secao_insights(); an exception stops the run
SecaoInsights ==
    /\ secao = "insights"
    /\ LET r == secao_insights(resumo[1])
       IN  /\ ret' = [op |-> "secao_insights", status |-> r.status,
                      valor |-> r, args |-> <<>>]
           /\ secao' = IF r.status = "ok" THEN "fim" ELSE "parado"
    /\ UNCHANGED <<df_principal, feriados, resumo>>

NextApp ==
    \/ CarregarArquivo \/ CarregarFalha \/ Validar \/ Preprocessar
    \/ SecaoAnaliseGeral \/ SecaoTecnicos \/ SecaoInsights

SpecApp == InitApp /\ [][NextApp]_vars

----------------------------------------------------------------------------
(* Properties of the full run                                              *)

\* the days FERIADOS declares, whatever the year
DiasFeriados == UNION {FERIADOS[ano] : ano \in DOMAIN FERIADOS}

\* C17: in a full run the goal of a week is reduced by the holidays declared
\* for the year(s) of the week's own dates, whatever the year of the run.
C17_FeriadosDoAnoDosDados ==
    \A r \in LinhasResumo :
        r.meta_semana =
            40 - 8 * Cardinality({i \in 0..6 :
                                    (r.semana \div TicksPorDia) + i \in DiasFeriados})

EtapasDeCarga == {"carregar_dados_principal", "validar_colunas", "preprocessar_dados"}

SecoesDeAnalise == {"secao_analise_geral", "secao_tecnicos", "secao_insights"}

C19_TendenciaIndisponivel ==
    [][(ret.op = "secao_tecnicos" /\ ret.valor.analise.status = "insuficiente") =>
          /\ ret.valor.aviso
          /\ ~ret.valor.tendencia_exibida
          /\ ret.valor.abas
          /\ secao = "insights"
          /\ ret'.op = "secao_insights" => (ret'.status = "ok" /\ secao' = "fim")]_vars

----------------------------------------------------------------------------
(* The consumers of the summary table, each applied to the summary as      *)
(* preprocessar_dados returns it: the analyzer's methods to the frame      *)
(* renamed by PerformanceAnalyzer.__init__, the visualizer's functions to   *)
(* the frame DashboardApp hands them.                                      *)

\* the columns read by the consumers whose reads are plain indexing
colunas_lidas ==
    [identificar_tendencia |-> {COL_TEC, "Semana", COL_PROD, "Meta Batida"},
     gerar_alertas |-> {COL_TEC, "Semana", "Meta Batida"},
     mostrar_streaks |-> {"tecnico", "semana", "meta_batida"},
     mostrar_padroes_desempenho |->
         {"tecnico", "semana", "produtividade", "meta_batida"}]

Modelos == {"media_movel", "regressao"}

\* the call of one consumer: its name, its arguments, what it returns and
\* whether it failed (KeyError and ValueError are the failures on a missing
\* column)
consumir(c, res, tecnico, modelo) ==
    LET adf == analyzer_df(res)
        chamada(status, valor, args) ==
            [op |-> c, status |-> status, valor |-> valor, args |-> args]
        falta(df) == ~(colunas_lidas[c] \subseteq df.colunas)
    IN  CASE c = "identificar_tendencia" ->
               IF falta(adf) THEN chamada("KeyError", <<>>, <<tecnico>>)
               ELSE chamada("ok", identificar_tendencia(adf, tecnico, PERIODO_PADRAO),
                            <<tecnico>>)
          [] c = "gerar_alertas" ->
               IF falta(adf) THEN chamada("KeyError", <<>>, <<>>)
               ELSE chamada("ok", gerar_alertas(adf), <<>>)
          [] c = "prever_meta_proxima_semana" ->
               LET r == prever_meta_proxima_semana(adf, tecnico, modelo)
               IN  chamada(IF r.status = "KeyError" THEN "KeyError" ELSE "ok", r,
                           <<tecnico, modelo>>)
          [] c = "mostrar_ranking_consistencia" ->
               LET r == mostrar_ranking_consistencia(res)
               IN  chamada(r.status, r, <<>>)
          [] c = "mostrar_streaks" ->
               IF falta(res) \/ res.linhas = <<>>
               THEN chamada("KeyError", <<>>, <<>>)
               ELSE chamada("ok", mostrar_streaks(res), <<>>)
          [] c = "mostrar_padroes_desempenho" ->
               IF falta(res) THEN chamada("KeyError", <<>>, <<>>)
               ELSE LET r == mostrar_padroes_desempenho(res)
                    IN  chamada(r.status, r, <<>>)
          [] c = "mostrar_evolucao_produtividade" ->
               LET r == mostrar_evolucao_produtividade(res)
               IN  chamada(IF r.status = "ok" THEN "ok" ELSE r.causa, r, <<>>)

Consumidores ==
    {"identificar_tendencia", "gerar_alertas", "prever_meta_proxima_semana",
     "mostrar_ranking_consistencia", "mostrar_streaks",
     "mostrar_padroes_desempenho", "mostrar_evolucao_produtividade"}

\* summaries of one technician, a week after the other
ResumosConsumo ==
    {[colunas |-> {"tecnico", "semana", "produtividade", "protocolos",
                   "meta_semana", "meta_batida"},
      linhas |-> LinhasSerie("A", a, 1)] :
        a \in UNION {[1..n -> ProdutividadesSemana] : n \in 1..MaxSemanasApp}}

InitConsumo ==
    /\ df_principal = None
    /\ feriados = {}
    /\ resumo \in {Some(t) : t \in ResumosConsumo}
    /\ ret = SemRetorno
    /\ secao = "consumo"

Consumir ==
    /\ secao = "consumo"
    /\ \E c \in Consumidores, modelo \in Modelos :
          ret' = consumir(c, resumo[1], "A", modelo)
    /\ secao' = "fim"
    /\ UNCHANGED <<df_principal, feriados, resumo>>

NextConsumo == Consumir

SpecConsumo == InitConsumo /\ [][NextConsumo]_vars

\* C20: no consumer, given the summary as preprocessar_dados returns it,
\* hits a missing column.
C20_ColunasEncontradas ==
    ret.op \in Consumidores => ret.status \notin {"KeyError", "ValueError"}

----------------------------------------------------------------------------
(* Properties of the summary's column names                                *)

\* C21: the table returned by preprocessar_dados has columns named
\* 'Semana', 'Meta Semana' and 'Meta Batida'.
C21_ColunasDoResumo ==
    (ChamadaPreprocessar /\ ret.status = "ok") =>
        {"Semana", "Meta Semana", "Meta Batida"} \subseteq ret.valor.colunas

----------------------------------------------------------------------------
(* Frame of the core operations                                            *)

\* C22: no core operation changes the table it is given: preprocessar_dados
\* leaves the loaded table as it was (same columns, rows and values), and
\* the technician section (PerformanceAnalyzer and identificar_tendencia)
\* and the insights section (PerformanceAnalyzer and gerar_alertas) leave
\* the summary table as it was, under the names preprocessar_dados gave it.
C22_TabelasInalteradas ==
    [][/\ ret'.op = "preprocessar_dados" => df_principal' = df_principal
       /\ ret'.op \in {"secao_tecnicos", "secao_insights"} =>
             /\ resumo' = resumo
             /\ resumo'[1].colunas =
                   {"tecnico", "semana", "produtividade", "protocolos",
                    "meta_semana", "meta_batida"}]_vars

\* a run that summarised a sheet with records and rendered the alerts
C22_Witness ==
    /\ ret.op = "secao_insights"
    /\ df_principal # None
    /\ Len(df_principal[1].linhas) >= 3
    /\ resumo = Some(preprocessar_dados(df_principal, feriados).valor)

----------------------------------------------------------------------------
(* The data-processing run over weeks of holidays                          *)

\* holiday lists: the first k days of the week of 2024-01-01 at midnight,
\* k = 0..7
CalendariosSemana == {{Dias(i) : i \in 0..(k - 1)} : k \in 0..7}

\* closing dates: the Monday of the week of holidays, the same Monday with a
\* time of day, and the Monday after
CelulasMeta == {Dias(0), Dias(0) + 1, Dias(7)}

\* weekly totals include 0
ProdutividadesMeta == {0, 40}

\* sheets of up to MaxLinhasMeta records
PlanilhasMeta ==
    {[colunas |-> Range(COLUNAS_OBRIGATORIAS), linhas |-> l] :
        l \in UNION {[1..n -> {LinhaBruta(d, p, 1, t) :
                                  d \in CelulasMeta, p \in ProdutividadesMeta,
                                  t \in Range(Tecnicos)}] :
                        n \in 0..MaxLinhasMeta}}

InitMeta ==
    /\ df_principal = None
    /\ feriados \in CalendariosSemana
    /\ resumo = None
    /\ ret = SemRetorno
    /\ secao = "upload"

\* carregar_dados_principal on a sheet of PlanilhasMeta
CarregarSemana ==
    /\ secao = "upload"
    /\ \E p \in PlanilhasMeta : df_principal' = Some(p)
    /\ ret' = [op |-> "carregar_dados_principal", status |-> "ok", valor |-> <<>>,
               args |-> <<>>]
    /\ secao' = "carregado"
    /\ UNCHANGED <<feriados, resumo>>

NextMeta == CarregarSemana \/ CarregarFalha \/ Validar \/ Preprocessar

SpecMeta == InitMeta /\ [][NextMeta]_vars

----------------------------------------------------------------------------
(* The full run over two technicians with the same weeks                   *)

\* the uploaded sheets: one record a week for A and for B over
\* SemanasCenario weeks from 2024-01-01
PlanilhasCenario ==
    {[colunas |-> Range(COLUNAS_OBRIGATORIAS),
      linhas |-> LinhasSemanais("A", a) \o LinhasSemanais("B", b)] :
        a, b \in [1..SemanasCenario -> Produtividades]}

\* DataProcessor(uploaded_file, {}).carregar_dados_principal()
CarregarCenario ==
    /\ secao = "upload"
    /\ \E p \in PlanilhasCenario : df_principal' = Some(p)
    /\ ret' = [op |-> "carregar_dados_principal", status |-> "ok", valor |-> <<>>,
               args |-> <<>>]
    /\ secao' = "carregado"
    /\ UNCHANGED <<feriados, resumo>>

NextCenario ==
    \/ CarregarCenario \/ CarregarFalha \/ Validar \/ Preprocessar
    \/ SecaoAnaliseGeral \/ SecaoTecnicos \/ SecaoInsights

SpecCenario == InitApp /\ [][NextCenario]_vars

\* the summary rows of a technician
LinhasDoTecnico(t) == {r \in LinhasResumo : r.tecnico = t}

\* t1 reaches the 40-unit goal every week and t2 never does, over at least
\* four weeks each
CenarioSempreNunca(t1, t2) ==
    /\ t1 # t2
    /\ {r.tecnico : r \in LinhasResumo} = {t1, t2}
    /\ \A r \in LinhasResumo : r.meta_semana = 40
    /\ Cardinality(LinhasDoTecnico(t1)) >= 4
    /\ Cardinality(LinhasDoTecnico(t2)) >= 4
    /\ \A r \in LinhasDoTecnico(t1) : r.produtividade >= 40
    /\ \A r \in LinhasDoTecnico(t2) : r.produtividade < 40

\* C24: end to end, for two technicians with four weeks each, one reaching
\* the 40-unit goal every week and the other never, the never-met list of
\* the insights section holds exactly the second technician and
\* gerar_alertas emits no 'queda_performance' alert.
C24_CenarioSempreNunca ==
    \A t1, t2 \in Range(Tecnicos) :
        (ret.op = "secao_insights" /\ CenarioSempreNunca(t1, t2)) =>
            /\ ret.valor.status = "ok"
            /\ ret.valor.padroes.nunca_bateram = <<t2>>
            /\ \A i \in DOMAIN ret.valor.alertas :
                  ret.valor.alertas[i].tipo # "queda_performance"

\* the insights of a run where B always reaches 40 and A never does
C24_Witness ==
    /\ ret.op = "secao_insights"
    /\ CenarioSempreNunca("B", "A")
    /\ ret.valor.padroes.nunca_bateram = <<"A">>
    /\ ret.valor.alertas = <<>>

----------------------------------------------------------------------------
(* The trend over summaries whose rows come in any order                   *)

ProdutividadesOrdem == {39, 41}

\* the rows of a summary: up to MaxLinhasOrdem consecutive weeks of A, and
\* possibly one week of B
LinhasOrdem ==
    {LinhasSerie("A", a, 1) \o b :
        a \in UNION {[1..n -> ProdutividadesOrdem] : n \in 0..MaxLinhasOrdem},
        b \in {<<>>, <<LinhaResumo("B", 1, 40)>>}}

\* the summaries: those rows in every order
ResumosOrdem ==
    UNION {{[colunas |-> {"tecnico", "semana", "produtividade", "protocolos",
                          "meta_semana", "meta_batida"},
             linhas |-> [i \in DOMAIN l |-> l[f[i]]]] :
               f \in Permutations(DOMAIN l)} : l \in LinhasOrdem}

InitOrdem ==
    /\ df_principal = None
    /\ feriados = {}
    /\ resumo \in {Some(t) : t \in ResumosOrdem}
    /\ ret = SemRetorno
    /\ secao = "tecnicos"

NextOrdem == IdentificarTendencia

SpecOrdem == InitOrdem /\ [][NextOrdem]_vars

\* the fields of a trend result the callers read
CamposTendencia(a) ==
    IF a.status # "ok" THEN <<a.status>>
    ELSE <<a.status, a.coeficiente, a.tendencia, a.projecao, a.projecao_date>>

\* the summary with the same rows in the order A's weeks ascending, then B's
ResumoEmOrdem ==
    CHOOSE t \in ResumosOrdem :
        /\ t.linhas \in LinhasOrdem
        /\ Range(t.linhas) = Range(resumo[1].linhas)

\* the rows of a technician in the analyzer's frame
LinhasAnalyzer(tecnico) ==
    {r \in Range(analyzer_df(resumo[1]).linhas) : r[COL_TEC] = tecnico}

\* C25: identificar_tendencia fits over exactly the W rows of the technician
\* with the largest week, taken in ascending week order, and its result
\* (status, slope, direction, projection, projection date) is the same
\* whatever the order of the rows of the table, each technician having at
\* most one row per week.
C25_OrdemIndiferente ==
    ChamadaTendencia =>
        LET tecnico == ret.args[1]
            W == ret.args[2]
            d == ret.valor.dados
        IN  /\ CamposTendencia(ret.valor) =
                  CamposTendencia(identificar_tendencia(analyzer_df(ResumoEmOrdem),
                                                        tecnico, W))
            /\ ret.valor.status = "ok" =>
                  /\ Len(d) = W
                  /\ \A i \in 1..(W - 1) : d[i]["Semana"] < d[i + 1]["Semana"]
                  /\ Range(d) =
                        {r \in LinhasAnalyzer(tecnico) :
                            Cardinality({q \in LinhasAnalyzer(tecnico) :
                                            q["Semana"] > r["Semana"]}) < W}

\* a trend with a slope over a table whose first row is the technician's
\* latest week and whose last row is an earlier one
C25_Witness ==
    /\ ChamadaTendencia
    /\ ret.valor.status = "ok"
    /\ ret.valor.coeficiente.num # 0
    /\ ret.args[2] < Len(resumo[1].linhas)
    /\ LET l == resumo[1].linhas
       IN  /\ l[1].tecnico = ret.args[1]
           /\ l[Len(l)].tecnico = ret.args[1]
           /\ \A i \in 2..Len(l) : l[i].semana < l[1].semana

----------------------------------------------------------------------------
(* The alerts over tables with a region column                             *)

\* a row of a table given to PerformanceAnalyzer that carries a region
LinhaBairro(tecnico, w, batida, bairro) ==
    [tecnico |-> tecnico,
     semana |-> Dias(7 * w),
     produtividade |-> IF batida THEN 40 ELSE 39,
     protocolos |-> 1,
     meta_semana |-> SEMANAL,
     meta_batida |-> batida,
     Bairro |-> bairro]

\* technician A works in Centro: n weeks of which m met the goal, the met
\* weeks first or last
LinhasCentro ==
    {[i \in 1..n |-> LinhaBairro("A", i - 1,
                                 IF primeiro THEN i <= m ELSE i > n - m, "Centro")] :
        n \in 0..MaxLinhasCentro, m \in 0..MaxLinhasCentro, primeiro \in BOOLEAN}

\* technician B works in Norte: up to MaxLinhasNorte weeks, met or missed
LinhasNorte ==
    {[i \in 1..n |-> LinhaBairro("B", i - 1, b[i], "Norte")] :
        n \in 0..MaxLinhasNorte, b \in [1..MaxLinhasNorte -> BOOLEAN]}

ColunasResumo ==
    {"tecnico", "semana", "produtividade", "protocolos", "meta_semana", "meta_batida"}

\* the tables: with the region column, and the same rows without it
ResumosBairro ==
    {[colunas |-> ColunasResumo \cup {"Bairro"}, linhas |-> a \o b] :
        a \in LinhasCentro, b \in LinhasNorte}
    \cup
    {[colunas |-> ColunasResumo,
      linhas |-> [i \in DOMAIN (a \o b) |-> [c \in ColunasResumo |-> (a \o b)[i][c]]]] :
        a \in LinhasCentro, b \in LinhasNorte}

InitBairro ==
    /\ df_principal = None
    /\ feriados = {}
    /\ resumo \in {Some(t) : t \in ResumosBairro}
    /\ ret = SemRetorno
    /\ secao = "insights"

NextBairro == GerarAlertas

SpecBairro == InitBairro /\ [][NextBairro]_vars

ChamadaAlertas == ret.op = "gerar_alertas"

\* the rows of a region, and those that met the goal
LinhasDoBairro(b) == {r \in Range(resumo[1].linhas) : r["Bairro"] = b}
BatidasDoBairro(b) == {r \in LinhasDoBairro(b) : r["meta_batida"]}

\* the positions of the region alerts in the returned list
AlertasDeBairro ==
    {i \in DOMAIN ret.valor : ret.valor[i].tipo = "bairro_problematico"}

\* C26: with a region column, gerar_alertas emits one alert of severity
\* 'media' for exactly each region whose mean of 'Meta Batida' over its
\* rows is strictly below 0.3; without the column it emits no region alert;
\* every decline alert precedes every region alert.
C26_AlertasDeBairro ==
    ChamadaAlertas =>
        /\ IF "Bairro" \in resumo[1].colunas
           THEN /\ \A i \in AlertasDeBairro : ret.valor[i].severidade = "media"
                /\ \A b \in Range(Bairros) :
                      Cardinality({i \in AlertasDeBairro : ret.valor[i].bairro = b}) =
                          IF /\ LinhasDoBairro(b) # {}
                             /\ 10 * Cardinality(BatidasDoBairro(b)) <
                                   3 * Cardinality(LinhasDoBairro(b))
                          THEN 1 ELSE 0
                /\ \A i \in AlertasDeBairro : ret.valor[i].bairro \in Range(Bairros)
           ELSE AlertasDeBairro = {}
        /\ \A i, j \in DOMAIN ret.valor :
              (ret.valor[i].tipo = "queda_performance" /\ j \in AlertasDeBairro) => i < j

\* Centro at a rate of exactly 3 in 10 and not alerted, Norte at 1 in 4 and
\* alerted after the decline alert of its technician
C26_Witness ==
    /\ ChamadaAlertas
    /\ "Bairro" \in resumo[1].colunas
    /\ Cardinality(LinhasDoBairro("Centro")) = 10
    /\ Cardinality(BatidasDoBairro("Centro")) = 3
    /\ Cardinality(LinhasDoBairro("Norte")) = 4
    /\ Cardinality(BatidasDoBairro("Norte")) = 1
    /\ Len(ret.valor) = 2
    /\ ret.valor[1].tipo = "queda_performance"
    /\ ret.valor[2].tipo = "bairro_problematico"
    /\ ret.valor[2].bairro = "Norte"

----------------------------------------------------------------------------
(* DashboardVisualizer.mostrar_alertas: what it shows is the sequence of   *)
(* its streamlit calls, [fn, alerta, texto], alerta the alert shown if any *)

\* alerta['tipo'].replace('_', ' ').title()
TituloDe ==
    ("queda_performance" :> "Queda Performance")
        @@ ("bairro_problematico" :> "Bairro Problematico")
        @@ ("tipo3" :> "Tipo3")

\* alerta['severidade'].upper()
MaiusculaDe == ("alta" :> "ALTA") @@ ("media" :> "MEDIA") @@ ("baixa" :> "BAIXA")

_formatar_mensagem_alerta(alerta) ==
    <<TituloDe[alerta.tipo], MaiusculaDe[alerta.severidade], alerta.message>>

\* variant: a tab shows only the first of its alerts
aba_so_primeiro(alertas, severidade, fn, vazio) ==
    LET desta == SelectSeq(alertas, LAMBDA a : a.severidade = severidade)
    IN  IF desta # <<>>
        THEN <<[fn |-> fn, alerta |-> Some(desta[1]),
                texto |-> _formatar_mensagem_alerta(desta[1])]>>
        ELSE <<[fn |-> "info", alerta |-> None, texto |-> <<vazio>>]>>

\* one tab: the alerts of its severity, each shown with the tab's call, or
\* a note that there is none
aba(alertas, severidade, fn, vazio) ==
    LET desta == SelectSeq(alertas, LAMBDA a : a.severidade = severidade)
    IN  IF desta # <<>>
        THEN [i \in DOMAIN desta |->
                [fn |-> fn, alerta |-> Some(desta[i]),
                 texto |-> _formatar_mensagem_alerta(desta[i])]]
        ELSE <<[fn |-> "info", alerta |-> None, texto |-> <<vazio>>]>>

mostrar_alertas(alertas) ==
    IF alertas = <<>>
    THEN <<[fn |-> "success", alerta |-> None,
            texto |-> <<"Nenhum alerta critico identificado">>]>>
    ELSE aba(alertas, "alta", "error", "Nenhum alerta de alta severidade")
         \o aba(alertas, "media", "warning", "Nenhum alerta de media severidade")
         \o aba(alertas, "baixa", "info", "Nenhum alerta de baixa severidade")

\* the alerts of the lists shown: the decline alert of a technician, the
\* alert of a region, and an alert of low severity
AlertasMostrados ==
    {[tipo |-> "queda_performance", tecnico |-> t, severidade |-> "alta",
      message |-> "teve queda nas ultimas 3 semanas"] : t \in Range(Tecnicos)}
    \cup
    {[tipo |-> "bairro_problematico", bairro |-> b, severidade |-> "media",
      message |-> "com baixa taxa de sucesso"] : b \in Range(Bairros)}
    \cup
    {[tipo |-> "tipo3", severidade |-> "baixa", message |-> "Mensagem 3"]}

ListasDeAlertas == UNION {[1..n -> AlertasMostrados] : n \in 0..MaxAlertas}

InitAlertas ==
    /\ df_principal = None
    /\ feriados = {}
    /\ resumo = None
    /\ ret = SemRetorno
    /\ secao = "insights"

\* DashboardVisualizer.mostrar_alertas(alertas)
MostrarAlertas ==
    /\ secao = "insights"
    /\ \E alertas \in ListasDeAlertas :
          ret' = [op |-> "mostrar_alertas", status |-> "ok",
                  valor |-> mostrar_alertas(alertas), args |-> <<alertas>>]
    /\ secao' = "padroes"
    /\ UNCHANGED <<df_principal, feriados, resumo>>

NextAlertas == MostrarAlertas

SpecAlertas == InitAlertas /\ [][NextAlertas]_vars

\* the streamlit call of a severity
EstiloDe == ("alta" :> "error") @@ ("media" :> "warning") @@ ("baixa" :> "info")

\* C27: mostrar_alertas with an empty list shows only the success message;
\* with a non-empty list every alert is shown exactly once (as often as it
\* is in the list), as an error if its severity is 'alta', a warning if
\* 'media' and an info if 'baixa', and the success message is not shown.
C27_AlertasExibidos ==
    ret.op = "mostrar_alertas" =>
        LET alertas == ret.args[1]
            chamadas == ret.valor
            exibicoes(a) == {k \in DOMAIN chamadas : chamadas[k].alerta = Some(a)}
        IN  IF alertas = <<>>
            THEN /\ Len(chamadas) = 1
                 /\ chamadas[1].fn = "success"
            ELSE /\ \A i \in DOMAIN alertas :
                      /\ Cardinality(exibicoes(alertas[i])) =
                            Cardinality({j \in DOMAIN alertas : alertas[j] = alertas[i]})
                      /\ \A k \in exibicoes(alertas[i]) :
                            chamadas[k].fn = EstiloDe[alertas[i].severidade]
                 /\ \A k \in DOMAIN chamadas :
                      /\ chamadas[k].fn # "success"
                      /\ chamadas[k].alerta # None =>
                            chamadas[k].alerta[1] \in Range(alertas)

\* a list with two alerts of one severity and one of another, all shown
C27_Witness ==
    /\ ret.op = "mostrar_alertas"
    /\ Len(ret.args[1]) = 3
    /\ Cardinality({ret.args[1][i].severidade : i \in 1..3}) = 2
    /\ Cardinality(Range(ret.args[1])) = 3
    /\ Cardinality({k \in DOMAIN ret.valor : ret.valor[k].alerta # None}) = 3

----------------------------------------------------------------------------
(* The forecast over frames that carry the columns it reads ('Pontuacao',  *)
(* 'Meta Semana'), of the shape of the frames of tests/test_analysis.py     *)

Pontuacoes == {8, 10, 15}

\* the rows of a technician, a week after the other from 2024-01-01
LinhasPontuadas(tecnico, serie) ==
    [i \in DOMAIN serie |->
        (COL_TEC :> tecnico) @@ ("Semana" :> Dias(7 * (i - 1)))
            @@ ("Pontuacao" :> serie[i]) @@ ("Meta Semana" :> SEMANAL)
            @@ ("Meta Batida" :> FALSE)]

\* frames of one technician with up to MaxSemanasApp weeks, oldest or
\* latest week first
FramesPontuados ==
    {[colunas |-> {COL_TEC, "Semana", "Pontuacao", "Meta Semana", "Meta Batida"},
      linhas |-> IF inverso THEN Reverse(LinhasPontuadas("A", a))
                 ELSE LinhasPontuadas("A", a)] :
        a \in UNION {[1..n -> Pontuacoes] : n \in 0..MaxSemanasApp},
        inverso \in BOOLEAN}

InitPrevisao ==
    /\ df_principal = None
    /\ feriados = {}
    /\ resumo \in {Some(t) : t \in FramesPontuados}
    /\ ret = SemRetorno
    /\ secao = "tecnicos"

\* PerformanceAnalyzer(frame, None, {}).prever_meta_proxima_semana(tecnico, modelo)
Prever ==
    /\ secao = "tecnicos"
    /\ \E tecnico \in Range(Tecnicos), modelo \in Modelos :
          ret' = [op |-> "prever_meta_proxima_semana", status |-> "ok",
                  valor |-> prever_meta_proxima_semana(analyzer_df(resumo[1]),
                                                       tecnico, modelo),
                  args |-> <<tecnico, modelo>>]
    /\ secao' = "fim"
    /\ UNCHANGED <<df_principal, feriados, resumo>>

NextPrevisao == Prever

SpecPrevisao == InitPrevisao /\ [][NextPrevisao]_vars

\* the scores of a technician in the frame, oldest week first
PontosDe(tecnico) ==
    LET idx == {i \in DOMAIN resumo[1].linhas :
                   resumo[1].linhas[i][COL_TEC] = tecnico}
        naOrdem(k) ==
            CHOOSE i \in idx :
                Cardinality({j \in idx : resumo[1].linhas[j]["Semana"]
                                           < resumo[1].linhas[i]["Semana"]}) = k - 1
    IN  [k \in 1..Cardinality(idx) |-> resumo[1].linhas[naOrdem(k)]["Pontuacao"]]

\* C28: prever_meta_proxima_semana returns 'insuficiente' exactly when the
\* technician has fewer than 3 rows; otherwise 'ok' with the forecast of the
\* next week: the mean of the last 3 scores for 'media_movel', and for
\* 'regressao' the line fitted over indices 0..n-1 evaluated at index n.
C28_PrevisaoProximaSemana ==
    ret.op = "prever_meta_proxima_semana" =>
        LET y == PontosDe(ret.args[1])
            n == Len(y)
            Sx == SumSeq([i \in 1..n |-> i - 1])
            p == ret.valor.previsao
        IN  /\ (ret.valor.status = "insuficiente") <=> (n < 3)
            /\ n >= 3 =>
                  /\ ret.valor.status = "ok"
                  /\ p.den > 0
                  /\ IF ret.args[2] = "media_movel"
                     THEN 3 * p.num = p.den * (y[n] + y[n - 1] + y[n - 2])
                     ELSE p.num * (n * Var(y)) =
                             p.den * (SumSeq(y) * Var(y) + Cov(y) * (n * n - Sx))

----------------------------------------------------------------------------
(* Properties of what the technician section recommends                    *)

\* C29: for every trend result with status 'ok', mostrar_tendencia_tecnico
\* shows the growth recommendation when the direction is rising ('alta'),
\* the decline recommendation when it is falling ('baixa'), and the
\* stability recommendation only when it is stable ('estavel').
C29_RecomendacaoPorDirecao ==
    (ret.op = "secao_tecnicos" /\ ret.valor.analise.status = "ok") =>
        /\ ret.valor.analise.tendencia = "alta" =>
              ret.valor.recomendacao = "crescimento"
        /\ ret.valor.analise.tendencia = "baixa" =>
              ret.valor.recomendacao = "queda"
        /\ ret.valor.recomendacao = "estabilidade" =>
              ret.valor.analise.tendencia = "estavel"

----------------------------------------------------------------------------
(* Properties of the two decline detectors                                 *)

\* the technicians with a 'queda_performance' alert in the insights section
TecnicosAlertados ==
    {ret.valor.alertas[i].tecnico :
        i \in {k \in DOMAIN ret.valor.alertas :
                  ret.valor.alertas[k].tipo = "queda_performance"}}

\* the technicians of the 'Em Queda' list of the insights section
TecnicosEmQueda ==
    {ret.valor.padroes.queda[i].Tecnico : i \in DOMAIN ret.valor.padroes.queda}

\* C30: no technician both triggers the 'queda_performance' alert of
\* gerar_alertas and appears in the 'Em Queda' list of
\* mostrar_padroes_desempenho.
C30_DetectoresDisjuntos ==
    ret.op = "secao_insights" => TecnicosAlertados \cap TecnicosEmQueda = {}

\* insights where one technician is alerted and the other is in the list
C30_Witness ==
    /\ ret.op = "secao_insights"
    /\ TecnicosAlertados = {"B"}
    /\ TecnicosEmQueda = {"A"}
====
